---- MODULE Spec2Model ----
(***************************************************************************)
(* AgriSense Morocco (src/app.py): a Streamlit script that is re-run from  *)
(* top to bottom on every user interaction.  The session state (page,      *)
(* refresh_weather, refresh_ndvi) survives between runs; everything else   *)
(* is recomputed by the run.  A state of this model is the session state   *)
(* together with what the latest run put on the screen.                    *)
(*                                                                         *)
(* Real numbers are fixed-point integers in millionths (Micro).            *)
(***************************************************************************)
EXTENDS Integers, Sequences, FiniteSets, TLC

\* How many times each refresh button is pressed at most in a session.
MaxRefresh == 3

Micro == 1000 * 1000

Max(a, b) == IF a >= b THEN a ELSE b

Min(a, b) == IF a <= b THEN a ELSE b

Range(s) == {s[i] : i \in DOMAIN s}

(***************************************************************************)
(* The widgets' options.                                                   *)
(***************************************************************************)
Regions == <<"Souss-Massa", "Gharb", "Saïss", "Haouz", "Oriental", "Draa-Tafilalet">>

Crops == <<"Wheat", "Olives", "Tomatoes", "Citrus", "Dates">>

(***************************************************************************)
(* numpy's global generator.  np.random.seed(n) puts the Mersenne Twister  *)
(* in the state init_genrand(n); the tables hold, for n = 0..40, what the  *)
(* generator then returns: the first two random_sample() doubles (floor of *)
(* the value times 10^6), the first standard normal of the polar method    *)
(* (legacy_gauss) and the number of 32-bit words that normal consumed.     *)
(* Entry n+1 is seed n.                                                    *)
(***************************************************************************)
RandomSample1 ==
    << 548813, 417022, 435994, 550797, 967029, 221993, 892860, 76308,
       873429, 10374, 771320, 180269, 154162, 777702, 513943, 848817,
       223291, 294665, 650374, 97533, 588130, 48724, 208460, 517297,
       960017, 870124, 307934, 425721, 729013, 863759, 644143, 286053,
       858889, 248510, 38561, 458054, 728507, 944496, 384773, 546889,
       407687 >>

RandomSample2 ==
    << 715189, 720324, 25926, 708147, 547232, 870732, 331979, 779918,
       968540, 501874, 20751, 19475, 740049, 237541, 773165, 178895,
       523163, 530586, 505453, 761249, 897713, 289109, 481681, 946962,
       699512, 582276, 519391, 814583, 561239, 284905, 380748, 958105,
       372711, 449975, 780100, 308349, 601614, 464098, 859707, 797899,
       55366 >>

Gauss ==
    << 1764052, 1624345, -416758, 1788628, 50561, 441227, -311784, 1690525,
       91204, 1108, 1331586, 1749454, 472985, -712391, 1551339, -312329,
       127948, 276265, 79428, 221003, 883893, -51965, -91950, 666988,
       1329212, 228273, 195993, 1285605, 446332, -417483, -1264053, -414758,
       -348895, -318854, 243835, -1889737, 676413, -54464, 1008705, 1404839,
       -607548 >>

GaussWords ==
    << 4, 4, 4, 4, 4, 4, 4, 8,
       8, 4, 8, 8, 4, 4, 4, 4,
       4, 4, 4, 4, 4, 4, 4, 4,
       12, 4, 4, 4, 4, 4, 4, 12,
       4, 4, 8, 4, 4, 4, 4, 4,
       4 >>

\* Uniform with the upper end used as the width.
UniformUpperAsWidth(low, high, u) == low * Micro + high * u

\* np.random.uniform(low, high) = low + (high - low) * random_sample();
\* low and high are whole numbers, u and the result are in millionths.
Uniform(low, high, u) == low * Micro + (high - low) * u

\* np.random.normal(loc, scale) = loc + scale * gauss; all in millionths
\* (the product is split so that it stays within 32 bits).
Normal(loc, scale, z) == loc + ((scale \div 1000) * z) \div 1000

\* np.clip(x, lo, hi)
Clip(x, lo, hi) == Min(Max(x, lo), hi)

\* The seeds of lines 155 and 159.
WeatherSeed(reg, rw) == Len(reg) + rw

NdviSeed(reg, rn) == Len(reg) + rn

\* The generator after np.random.seed(n) and one normal draw: the seed it
\* was given and the number of words it has returned since.
Seeded(n) == [seed |-> n, pos |-> GaussWords[n + 1]]

\* Reading without the second seeding of line 159: the ndvi is drawn from
\* the generator the weather seed started.
ReadingSeededOnce(reg, rw, rn) ==
    LET sw == Len(reg) + rw
    IN  [ temperature |-> 10 * Micro + 25 * RandomSample1[sw + 1],
          rainfall    |-> 50 * RandomSample2[sw + 1],
          ndvi        |-> Min(Max(550000 + (100 * Gauss[sw + 1]) \div 1000, 250000), 850000),
          generator   |-> [seed |-> sw, pos |-> GaussWords[sw + 1] + 4] ]

\* Lines 155-160: the reading of a run, and the generator as the ndvi draw
\* leaves it.
Reading(reg, rw, rn) ==
    LET sw == WeatherSeed(reg, rw)
        sn == NdviSeed(reg, rn)
    IN  [ temperature |-> Uniform(10, 35, RandomSample1[sw + 1]),
          rainfall    |-> Uniform(0, 50, RandomSample2[sw + 1]),
          ndvi        |-> Clip(Normal(550000, 100000, Gauss[sn + 1]), 250000, 850000),
          generator   |-> Seeded(sn) ]

(***************************************************************************)
(* Lines 170-177: the training frame, built around the reading of the run. *)
(***************************************************************************)
\* linspace with endpoint=False: the step is the num-th of the span.
LinspaceOpen(start, stop, num) ==
    [i \in 1..num |-> start + ((i - 1) * (stop - start)) \div num]

\* np.linspace(start, stop, num): entry i of num evenly spaced values.
Linspace(start, stop, num) ==
    [i \in 1..num |-> start + ((i - 1) * (stop - start)) \div (num - 1)]

CropLabels == <<"Wheat", "Olives", "Tomatoes", "Citrus", "Dates", "Wheat">>

IrrigationLabels == <<"High", "Low", "High", "Medium", "Low", "High">>

\* t, r and v are the run's temperature, rainfall and ndvi.
TrainingData(t, r, v) ==
    LET temp == Linspace(t - 5 * Micro, t + 5 * Micro, 6)
        rain == Linspace(Max(r - 20 * Micro, 0), r + 20 * Micro, 6)
        nd   == Linspace(v - Micro \div 10, v + Micro \div 10, 6)
    IN  [i \in 1..6 |-> [ temp |-> temp[i], rain |-> rain[i], ndvi |-> nd[i],
                          crop |-> CropLabels[i],
                          irrigation |-> IrrigationLabels[i] ]] \o <<>>

\* X = data[["temp","rain","ndvi"]]: the three feature columns of a row.
Features(row) == <<row.temp, row.rain, row.ndvi>>

(***************************************************************************)
(* Lines 180-184: LabelEncoder.  fit sorts the distinct labels (classes_), *)
(* transform gives a label's place in classes_, inverse_transform the      *)
(* label at a place.  Alphabet is the order Python sorts the labels in.    *)
(***************************************************************************)
Alphabet ==
    <<"Citrus", "Dates", "High", "Low", "Medium", "Olives", "Tomatoes", "Wheat">>

Classes(labels) == SelectSeq(Alphabet, LAMBDA l : l \in Range(labels))

Transform(classes, label) == CHOOSE i \in DOMAIN classes : classes[i] = label

\* Decoding with the irrigation encoder whatever the column.
InverseTransformIrrigation(classes, i) ==
    <<"High", "Low", "Medium">>[IF i > 3 THEN 3 ELSE i]

\* Decoding with the crop encoder whatever the column.
InverseTransformCrop(classes, i) ==
    <<"Citrus", "Dates", "Olives", "Tomatoes", "Wheat">>[i]

InverseTransform(classes, i) == classes[i]

(***************************************************************************)
(* Lines 186-194 and 200: RandomForestClassifier(n_estimators=120) with no *)
(* random_state draws from numpy's global generator, the one line 159      *)
(* seeded.  fit draws one seed per tree from it; each tree is grown on a   *)
(* bootstrap sample of the six rows until its leaves are pure, splitting   *)
(* on one randomly chosen feature (max_features = sqrt(3)).  The six rows  *)
(* are in the same order along every feature, so the leaf of the input is  *)
(* the sampled row nearest to it along the feature, the lower row on a tie *)
(* (x <= threshold goes left).  predict_proba is the share of the trees    *)
(* voting for each class, predict the first class with the largest share.  *)
(*                                                                         *)
(* The words the Mersenne Twister returns after the ndvi draw are not      *)
(* tabulated: Lcg stands for them.  What the model keeps is that they are  *)
(* a function of the generator's state and of nothing else.                *)
(***************************************************************************)
n_estimators == 120

Lcg(x) == (75 * x + 74) % 65537

\* The k-th word the generator returns after state gen.
Word(gen, k) == Lcg(Lcg((gen.seed * 1009 + (gen.pos + k) * 31) % 65537))

RECURSIVE Draws(_, _)
\* The first n draws of a tree's own generator, seeded with ts.
Draws(ts, n) ==
    IF n = 0 THEN <<>>
    ELSE LET before == Draws(ts, n - 1)
         IN  Append(before, Lcg(IF n = 1 THEN ts ELSE before[n - 1]))

Abs(a) == IF a >= 0 THEN a ELSE 0 - a

\* How far each training row is from the input x along each feature.
Distances(X, x) ==
    [f \in DOMAIN x |-> [r \in DOMAIN X |-> Abs(X[r][f] - x[f])] \o <<>>] \o <<>>

\* The class a single tree predicts: y is the rows' class indices, dist
\* the rows' distances from the input.
TreePredict(ts, dist, y) ==
    LET n      == Len(y)
        draw   == Draws(ts, n + 1)
        sample == {(draw[j] % n) + 1 : j \in 1..n}
        d      == dist[(draw[n + 1] % Len(dist)) + 1]
        leaf   == CHOOSE r \in sample :
                      \A q \in sample : d[r] < d[q] \/ (d[r] = d[q] /\ r <= q)
    IN  y[leaf]

\* fit on (X, y) and predict_proba(x): the number of trees voting for each
\* class (the probability times n_estimators).
\* The votes counted per training row instead of per class.
ForestVotesPerRow(gen, X, y, nClasses, x) ==
    LET dist == Distances(X, x)
        tree == {<<i, TreePredict(Word(gen, i), dist, y)>> : i \in 1..n_estimators}
    IN  [c \in DOMAIN X |-> Cardinality({t \in tree : t[2] = c})] \o <<>>

\* The votes of the forest fitted on (X, y) with the generator at gen, for
\* the input x: how many of the trees predict each class.
ForestVotes(gen, X, y, nClasses, x) ==
    LET dist == Distances(X, x)
        tree == {<<i, TreePredict(Word(gen, i), dist, y)>> : i \in 1..n_estimators}
    IN  [c \in 1..nClasses |-> Cardinality({t \in tree : t[2] = c})] \o <<>>

\* np.argmin in the place of np.argmax.
ArgMin(votes) ==
    CHOOSE c \in DOMAIN votes :
        \A e \in DOMAIN votes : votes[c] < votes[e] \/ (votes[c] = votes[e] /\ c <= e)

\* predict: np.argmax of the probabilities, the first of the largest.
ArgMax(votes) ==
    CHOOSE c \in DOMAIN votes :
        \A e \in DOMAIN votes : votes[c] > votes[e] \/ (votes[c] = votes[e] /\ c <= e)

\* The generator after a forest was fitted: one word per tree.
AfterFit(gen) == [gen EXCEPT !.pos = @ + n_estimators]

(***************************************************************************)
(* Lines 170-200: the recommendation policy, from the reading and the      *)
(* generator's state to the two labels and the chart's probabilities.      *)
(***************************************************************************)
Policy(t, r, v, gen) ==
    LET frame    == TrainingData(t, r, v)
        X        == [i \in DOMAIN frame |-> Features(frame[i])] \o <<>>
        le_crop  == Classes([i \in DOMAIN frame |-> frame[i].crop])
        le_irr   == Classes([i \in DOMAIN frame |-> frame[i].irrigation])
        y_crop   == [i \in DOMAIN frame |-> Transform(le_crop, frame[i].crop)] \o <<>>
        y_irr    == [i \in DOMAIN frame |-> Transform(le_irr, frame[i].irrigation)] \o <<>>
        X_input  == <<t, r, v>>
        cropVotes == ForestVotes(gen, X, y_crop, Len(le_crop), X_input)
        irrVotes  == ForestVotes(AfterFit(gen), X, y_irr, Len(le_irr), X_input)
    IN  [ data      |-> frame,
          crop_pred |-> InverseTransform(le_crop, ArgMax(cropVotes)),
          irr_pred  |-> InverseTransform(le_irr, ArgMax(irrVotes)),
          classes   |-> le_crop,
          probs     |-> cropVotes ]

(***************************************************************************)
(* The state.  page, refresh_weather and refresh_ndvi are st.session_state *)
(* (lines 43-50); rng is numpy's global generator, which outlives a run    *)
(* too.  The rest is the latest run: the button it was started with, the   *)
(* sidebar's two selections, what it put on the screen (view) and what its *)
(* report button produced.  view.shown is the page function that drew the  *)
(* screen; a screen drawn by intro_page has no reading: its numbers are    *)
(* None, its labels "", its frames <<>>.                                   *)
(***************************************************************************)
VARIABLES page, refresh_weather, refresh_ndvi, rng,
          button, region, crop, view, report

vars == <<page, refresh_weather, refresh_ndvi, rng, button, region, crop, view, report>>

session == <<page, refresh_weather, refresh_ndvi>>

\* The locals of dashboard_page as the latest run left them.
temperature == view.temperature

rainfall == view.rainfall

ndvi == view.ndvi

data == view.data

crop_pred == view.crop_pred

irr_pred == view.irr_pred

probs == view.probs

reading == <<temperature, rainfall, ndvi>>

recommendation == <<crop_pred, irr_pred>>

None == 0 - 1

RegionIndex(reg) == CHOOSE i \in DOMAIN Regions : Regions[i] = reg

\* Lines 164-203: the screen of a run whose reading is (t, r, v) and whose
\* generator is g when the forests are fitted.
PolicyView(t, r, v, g) ==
    LET p == Policy(t, r, v, g)
    IN  [ shown |-> "dashboard",
          temperature |-> t, rainfall |-> r, ndvi |-> v,
          data |-> p.data, crop_pred |-> p.crop_pred, irr_pred |-> p.irr_pred,
          classes |-> p.classes, probs |-> p.probs ]

\* A run that recommends a crop by the region's position in the list.
DashboardRunRegionalCrop(reg, crp, rw, rn) ==
    LET g == Reading(reg, rw, rn)
    IN  [PolicyView(g.temperature, g.rainfall, g.ndvi, g.generator)
            EXCEPT !.crop_pred = CropLabels[RegionIndex(reg)]]

\* Lines 155-203 for one run of dashboard_page: the reading generated from
\* the region and the counters, and the policy applied to it.  crp is the
\* crop of interest, which the run reads from the sidebar and never uses.
DashboardRun(reg, crp, rw, rn) ==
    LET g == Reading(reg, rw, rn)
    IN  PolicyView(g.temperature, g.rainfall, g.ndvi, g.generator)

\* DashboardRun tabulated over the runs a session can make, so that every
\* forest is fitted once.
Computed ==
    LET N == MaxRefresh + 1
        run(k) == DashboardRun(Regions[(k \div (N * N)) + 1], Crops[1],
                               (k \div N) % N, k % N)
    IN  [k \in 1..(Len(Regions) * N * N) |-> run(k - 1)] \o <<>>

\* A screen that recommends the crop of interest.
DisplayedCropOfInterest(reg, crp, rw, rn) ==
    [Computed[(RegionIndex(reg) - 1) * (MaxRefresh + 1) * (MaxRefresh + 1)
              + rw * (MaxRefresh + 1) + rn + 1] EXCEPT !.crop_pred = crp]

\* What a run of dashboard_page that is not cut short puts on the screen.
Displayed(reg, crp, rw, rn) ==
    Computed[(RegionIndex(reg) - 1) * (MaxRefresh + 1) * (MaxRefresh + 1)
             + rw * (MaxRefresh + 1) + rn + 1]

\* What a run of intro_page (lines 55-125) puts on the screen.
IntroView ==
    [ shown |-> "intro",
      temperature |-> None, rainfall |-> None, ndvi |-> None,
      data |-> <<>>, crop_pred |-> "", irr_pred |-> "",
      classes |-> <<>>, probs |-> <<>> ]

\* A router that draws the dashboard whatever the page.
RouterDashboardOnly(pg, reg, crp, rw, rn) == Displayed(reg, crp, rw, rn)

\* Lines 241-244: the router, which every run ends in.
Router(pg, reg, crp, rw, rn) ==
    IF pg = "intro" THEN IntroView ELSE Displayed(reg, crp, rw, rn)

\* The generator as a run routed to pg leaves it: dashboard_page seeds it
\* (line 159) and fits two forests, intro_page does not touch it.
Generator(pg, reg, rn, g) ==
    IF pg = "intro" THEN g ELSE AfterFit(AfterFit(Seeded(NdviSeed(reg, rn))))

Init ==
    /\ page = "intro"
    /\ refresh_weather = 0
    /\ refresh_ndvi = 0
    /\ rng = [seed |-> None, pos |-> 0]
    /\ button = "none"
    /\ region = Regions[1]
    /\ crop = Crops[1]
    /\ view = IntroView
    /\ report = "none"

\* Any interaction with the intro page other than the launch button (the
\* expander, the map): the script runs again.
IntroRerun ==
    /\ page = "intro"
    /\ button' = "none"
    /\ view' = Router(page, region, crop, refresh_weather, refresh_ndvi)
    /\ rng' = Generator(page, region, refresh_ndvi, rng)
    /\ UNCHANGED <<session, region, crop, report>>

\* Lines 123-125: the launch button sets the page and reruns; the rerun
\* draws the sidebar at its first options and has no button pressed.
LaunchDashboard ==
    /\ page = "intro"
    /\ page' = "dashboard"
    /\ button' = "launch"
    /\ region' = Regions[1]
    /\ crop' = Crops[1]
    /\ view' = Router("dashboard", Regions[1], Crops[1], refresh_weather, refresh_ndvi)
    /\ rng' = Generator("dashboard", Regions[1], refresh_ndvi, rng)
    /\ UNCHANGED <<refresh_weather, refresh_ndvi, report>>

\* Lines 134-137: another region is selected; no button is pressed.
SelectRegion(reg) ==
    /\ page = "dashboard"
    /\ button' = "none"
    /\ region' = reg
    /\ view' = Router(page, reg, crop, refresh_weather, refresh_ndvi)
    /\ rng' = Generator(page, reg, refresh_ndvi, rng)
    /\ report' = "none"
    /\ UNCHANGED <<session, crop>>

\* Lines 139-142: another crop of interest is selected.
SelectCrop(crp) ==
    /\ page = "dashboard"
    /\ button' = "none"
    /\ crop' = crp
    /\ view' = Router(page, region, crp, refresh_weather, refresh_ndvi)
    /\ rng' = Generator(page, region, refresh_ndvi, rng)
    /\ report' = "none"
    /\ UNCHANGED <<session, region>>

\* Lines 144-145, then the rest of the run.
UpdateWeather ==
    /\ page = "dashboard"
    /\ refresh_weather < MaxRefresh
    /\ refresh_weather' = refresh_weather + 1
    /\ button' = "weather"
    /\ view' = Router(page, region, crop, refresh_weather + 1, refresh_ndvi)
    /\ rng' = Generator(page, region, refresh_ndvi, rng)
    /\ report' = "none"
    /\ UNCHANGED <<page, refresh_ndvi, region, crop>>

\* Lines 147-148, then the rest of the run.
UpdateNdvi ==
    /\ page = "dashboard"
    /\ refresh_ndvi < MaxRefresh
    /\ refresh_ndvi' = refresh_ndvi + 1
    /\ button' = "ndvi"
    /\ view' = Router(page, region, crop, refresh_weather, refresh_ndvi + 1)
    /\ rng' = Generator(page, region, refresh_ndvi + 1, rng)
    /\ report' = "none"
    /\ UNCHANGED <<page, refresh_weather, region, crop>>

\* Lines 150-152: the run stops at st.rerun(), before line 155, and the
\* script runs again.  Widgets that a run does not draw lose their state:
\* the selections fall back to the first options.
Back ==
    /\ page = "dashboard"
    /\ page' = "intro"
    /\ button' = "back"
    /\ region' = Regions[1]
    /\ crop' = Crops[1]
    /\ view' = Router("intro", Regions[1], Crops[1], refresh_weather, refresh_ndvi)
    /\ rng' = Generator("intro", Regions[1], refresh_ndvi, rng)
    /\ report' = "none"
    /\ UNCHANGED <<refresh_weather, refresh_ndvi>>

\* Lines 214-228: the whole page is computed again, then the report is
\* written from the run's values.  fpdf keeps the text for the latin-1 core
\* font Arial and the title holds a dash outside latin-1, so writing the
\* file ends in an encoding error or in a report, as the library decides.
GenerateReport ==
    /\ page = "dashboard"
    /\ button' = "report"
    /\ view' = Router(page, region, crop, refresh_weather, refresh_ndvi)
    /\ rng' = Generator(page, region, refresh_ndvi, rng)
    /\ report' \in {"AgriSense_Report.pdf", "error"}
    /\ UNCHANGED <<session, region, crop>>

Next ==
    \/ IntroRerun
    \/ LaunchDashboard
    \/ \E reg \in Range(Regions) : SelectRegion(reg)
    \/ \E crp \in Range(Crops) : SelectCrop(crp)
    \/ UpdateWeather
    \/ UpdateNdvi
    \/ Back
    \/ GenerateReport

Spec == Init /\ [][Next]_vars

(***************************************************************************)
(* The policy on its own, as a function: a reading and a generator state   *)
(* are drawn from the sets below and lines 170-200 are applied to them.    *)
(* The readings cover the spec's four scenarios, the four thresholds it    *)
(* names and the ends of the generator's ranges.                           *)
(***************************************************************************)
PolicyTemperatures == {10 * Micro, 25 * Micro, 35 * Micro}

PolicyRainfalls == {0, 10 * Micro, 20 * Micro, 30 * Micro, 50 * Micro, 60 * Micro}

PolicyNdvis == {250000, 300000, 400000, 500000, 600000, 700000, 850000}

PolicySeeds == {5, 11}

InitPolicy ==
    /\ page = "dashboard"
    /\ refresh_weather = 0
    /\ refresh_ndvi = 0
    /\ rng \in {Seeded(n) : n \in PolicySeeds}
    /\ button = "none"
    /\ region = Regions[1]
    /\ crop = Crops[1]
    /\ view \in {[IntroView EXCEPT !.shown = "input", !.temperature = t,
                                   !.rainfall = r, !.ndvi = v] :
                    t \in PolicyTemperatures, r \in PolicyRainfalls, v \in PolicyNdvis}
    /\ report = "none"

Recommend ==
    /\ view.shown = "input"
    /\ view' = PolicyView(view.temperature, view.rainfall, view.ndvi, rng)
    /\ rng' = AfterFit(AfterFit(rng))
    /\ UNCHANGED <<session, button, region, crop, report>>

NextPolicy == Recommend

SpecPolicy == InitPolicy /\ [][NextPolicy]_vars

(***************************************************************************)
(* The recommendation policy (SpecPolicy).                                 *)
(***************************************************************************)

\* C1, as the specification states it: the crop is decided by the
\* vegetation index alone: "Vegetables/Citrus" above 0.6, "Cereals" above
\* 0.4 and up to 0.6, "Olive/DatePalm" at 0.4 or below.
C1_CropByVegetationIndex ==
    view.shown = "dashboard" =>
        crop_pred = (IF ndvi > 600000 THEN "Vegetables/Citrus"
                     ELSE IF ndvi > 400000 THEN "Cereals"
                     ELSE "Olive/DatePalm")

\* C1, amended: for every reading the crop returned is the training label
\* that most trees of the crop forest vote for, hence one of Wheat, Olives,
\* Tomatoes, Citrus, Dates and never one of the three threshold labels.
C1_CropIsMostVotedLabel ==
    view.shown = "dashboard" =>
        /\ crop_pred \in Range(CropLabels)
        /\ crop_pred \notin {"Vegetables/Citrus", "Cereals", "Olive/DatePalm"}
        /\ \A c \in DOMAIN probs :
              probs[Transform(view.classes, crop_pred)] >= probs[c]

\* A lush field (vegetation index 0.7) for which the policy has answered.
C1_LushFieldAnswered ==
    /\ view.shown = "dashboard"
    /\ ndvi = 700000
    /\ crop_pred \in Range(CropLabels)

\* C2, as the specification states it: the irrigation level is decided by
\* the rainfall alone: "High irrigation required" below 20, "Moderate
\* irrigation" from 20 and below 50, "Low irrigation required" from 50.
C2_IrrigationByRainfall ==
    view.shown = "dashboard" =>
        irr_pred = (IF rainfall < 20 * Micro THEN "High irrigation required"
                    ELSE IF rainfall < 50 * Micro THEN "Moderate irrigation"
                    ELSE "Low irrigation required")

\* C2, amended: for every reading the irrigation level returned is one of
\* the training labels High, Low, Medium, decoded by the irrigation
\* encoder, and never one of the three threshold sentences.
C2_IrrigationIsTrainingLabel ==
    view.shown = "dashboard" =>
        /\ irr_pred \in Range(IrrigationLabels)
        /\ irr_pred \notin {"High irrigation required", "Moderate irrigation",
                            "Low irrigation required"}

\* A dry, stressed field (rainfall 10, vegetation index 0.3) for which the
\* policy has answered.
C2_DryFieldAnswered ==
    /\ view.shown = "dashboard"
    /\ rainfall = 10 * Micro
    /\ ndvi = 300000
    /\ irr_pred \in Range(IrrigationLabels)

\* C3, as the specification states it: a reading exactly on a threshold
\* takes the lower-priority branch: 0.6 gives "Cereals", 0.4 gives
\* "Olive/DatePalm", rainfall 20 gives "Moderate irrigation", rainfall 50
\* gives "Low irrigation required".
C3_BoundaryTakesLowerBranch ==
    view.shown = "dashboard" =>
        /\ ndvi = 600000 => crop_pred = "Cereals"
        /\ ndvi = 400000 => crop_pred = "Olive/DatePalm"
        /\ rainfall = 20 * Micro => irr_pred = "Moderate irrigation"
        /\ rainfall = 50 * Micro => irr_pred = "Low irrigation required"

\* C3, amended: no reading is a boundary.  A reading on 0.6, 0.4, 20 or 50
\* is answered like any other: its crop and its irrigation level are
\* training labels, and the value on the threshold lies strictly between
\* the third and the fourth of the six training rows built around it.
C3_BoundaryLikeAnyReading ==
    (/\ view.shown = "dashboard"
     /\ ndvi \in {400000, 600000} \/ rainfall \in {20 * Micro, 50 * Micro}) =>
        /\ crop_pred \in Range(CropLabels)
        /\ irr_pred \in Range(IrrigationLabels)
        /\ ndvi \in {400000, 600000} =>
              (data[3].ndvi < ndvi /\ ndvi < data[4].ndvi)
        /\ rainfall \in {20 * Micro, 50 * Micro} =>
              (data[3].rain < rainfall /\ rainfall < data[4].rain)

\* The reading (rainfall 20, vegetation index 0.6), answered.
C3_BoundaryAnswered ==
    /\ view.shown = "dashboard"
    /\ rainfall = 20 * Micro
    /\ ndvi = 600000
    /\ crop_pred # "Cereals"
    /\ irr_pred # "Moderate irrigation"

(***************************************************************************)
(* The application (Spec).                                                 *)
(***************************************************************************)

C5_PolicyTotal ==
    /\ page = "dashboard" => view.shown = "dashboard"
    /\ view.shown = "dashboard" =>
        /\ crop_pred \in {"Vegetables/Citrus", "Cereals", "Olive/DatePalm",
                          "Wheat", "Olives", "Tomatoes", "Citrus", "Dates"}
        /\ irr_pred \in {"High", "Medium", "Low"}
        /\ DOMAIN probs = 1..Cardinality({data[i].crop : i \in DOMAIN data})
        /\ Len(view.classes) = Len(probs)
        /\ \A c \in DOMAIN probs : probs[c] \in 0..n_estimators

\* A recommendation on the screen of a run whose report failed.
C5_RecommendationDespiteReportError ==
    /\ view.shown = "dashboard"
    /\ report = "error"
    /\ Len(probs) = 5

\* C6, as the specification states it: the six training rows, features and
\* labels, are the same on every invocation.
C6_TrainingRowsFixed ==
    view.shown = "dashboard" =>
        \A k \in DOMAIN Computed : Computed[k].data = data

\* C6, amended: only the labels of the six training rows are hard-coded.
\* The features are built on each invocation around the reading: the
\* temperatures from 5 below to 5 above, the rainfalls from 20 below (not
\* under 0) to 20 above, the indices from 0.1 below to 0.1 above, each
\* column increasing; the same reading gives the same rows.
C6_LabelsFixedFeaturesFollowReading ==
    view.shown = "dashboard" =>
        /\ [i \in DOMAIN data |-> data[i].crop] = CropLabels
        /\ [i \in DOMAIN data |-> data[i].irrigation] = IrrigationLabels
        /\ data[1].temp = temperature - 5 * Micro
        /\ data[6].temp = temperature + 5 * Micro
        /\ data[1].rain = Max(rainfall - 20 * Micro, 0)
        /\ data[6].rain = rainfall + 20 * Micro
        /\ data[1].ndvi = ndvi - 100000
        /\ data[6].ndvi = ndvi + 100000
        /\ \A i \in 1..5 : /\ data[i].temp < data[i + 1].temp
                           /\ data[i].rain < data[i + 1].rain
                           /\ data[i].ndvi < data[i + 1].ndvi
        /\ \A k \in DOMAIN Computed :
              <<Computed[k].temperature, Computed[k].rainfall, Computed[k].ndvi>> = reading
                  => Computed[k].data = data

\* After a press of the weather button the training rows are not those of
\* the run that followed the launch; the labels are.
C6_RowsMovedWithReading ==
    /\ view.shown = "dashboard"
    /\ region = Regions[1]
    /\ refresh_weather = 1
    /\ refresh_ndvi = 0
    /\ data # Computed[1].data
    /\ [i \in DOMAIN data |-> data[i].crop] = CropLabels

\* C7: every generated reading has its temperature in [10, 35], its
\* rainfall in [0, 50] and its vegetation index in [0.25, 0.85], and the
\* lower end of the rainfall training range is never negative.
C7_ReadingInRange ==
    view.shown = "dashboard" =>
        /\ 10 * Micro <= temperature /\ temperature <= 35 * Micro
        /\ 0 <= rainfall /\ rainfall <= 50 * Micro
        /\ 250000 <= ndvi /\ ndvi <= 850000
        /\ \A i \in DOMAIN data : data[i].rain >= 0

\* A reading whose rainfall is under 20: the training range starts at 0.
C7_LowRainfall ==
    /\ view.shown = "dashboard"
    /\ rainfall < 20 * Micro
    /\ data[1].rain = 0

\* C8: both counters start at 0.  A run changes refresh_weather only by
\* adding one when the weather button started it and refresh_ndvi only by
\* adding one when the NDVI button started it; such a run leaves the page
\* as it is.  A press of the NDVI button leaves the temperature and the
\* rainfall on the screen as they were, a press of the weather button
\* leaves the vegetation index as it was.
C8_CountersFrame ==
    /\ refresh_weather = 0
    /\ refresh_ndvi = 0
    /\ [][/\ refresh_weather' = refresh_weather + (IF button' = "weather" THEN 1 ELSE 0)
          /\ refresh_ndvi' = refresh_ndvi + (IF button' = "ndvi" THEN 1 ELSE 0)
          /\ button' = "weather" => (page' = page /\ ndvi' = ndvi)
          /\ button' = "ndvi" => (/\ page' = page
                                  /\ temperature' = temperature
                                  /\ rainfall' = rainfall)]_vars

\* The NDVI button pressed for the second time, after a weather press.
C8_NdviPressedAfterWeather ==
    /\ button = "ndvi"
    /\ refresh_ndvi = 2
    /\ refresh_weather = 1

\* C9: the page is "intro" or "dashboard" and the run draws that page and
\* no other; the page starts at "intro", becomes "dashboard" only by the
\* launch button and "intro" only by the back button; neither changes a
\* counter.  The readings on the dashboard are those of the selected region
\* and the counters, so that going back and launching again shows them
\* again.  The run in which the back button is pressed ends with no reading
\* and no recommendation, and with the generator as it found it.
C9_Navigation ==
    /\ page = "intro"
    /\ [](/\ page \in {"intro", "dashboard"}
          /\ view.shown = page
          /\ button = "back" => view = IntroView
          /\ page = "dashboard" =>
                LET o == Displayed(region, crop, refresh_weather, refresh_ndvi)
                IN  reading = <<o.temperature, o.rainfall, o.ndvi>>)
    /\ [][/\ page' # page =>
                \/ page = "intro" /\ page' = "dashboard" /\ button' = "launch"
                \/ page = "dashboard" /\ page' = "intro" /\ button' = "back"
          /\ button' = "launch" => page' = "dashboard"
          /\ button' = "back" => page' = "intro"
          /\ button' \in {"launch", "back"} =>
                (refresh_weather' = refresh_weather /\ refresh_ndvi' = refresh_ndvi)
          /\ button' = "back" => rng' = rng]_vars

\* The dashboard launched again after the counters were raised.
C9_LaunchedAgain ==
    /\ button = "launch"
    /\ page = "dashboard"
    /\ refresh_weather > 0
    /\ refresh_ndvi > 0

\* C10: the reading and the recommendation on the screen are those of any
\* region whose name has the same length and of any crop of interest, at
\* the same counters.
C10_RegionByLengthOnly ==
    view.shown = "dashboard" =>
        \A reg \in Range(Regions), crp \in Range(Crops) :
            Len(reg) = Len(region) =>
                LET o == Displayed(reg, crp, refresh_weather, refresh_ndvi)
                IN  /\ <<o.temperature, o.rainfall, o.ndvi>> = reading
                    /\ <<o.crop_pred, o.irr_pred>> = recommendation

\* Saïss, one of the three regions of length 5, with Dates of interest.
C10_SaissWithDates ==
    /\ view.shown = "dashboard"
    /\ region = Regions[3]
    /\ Len(region) = Len(Regions[2])
    /\ Len(region) = Len(Regions[4])
    /\ crop = "Dates"
    /\ refresh_weather = 1

====
